---- MODULE Spec2Model ----
(***************************************************************************)
(* A model of the algorithmic subtyping engine of the `infer` crate        *)
(* (src/src/lib.rs, src/src/context.rs, src/src/types.rs,                  *)
(* src/src/ctxmember.rs).                                                  *)
(*                                                                         *)
(* A session is one CheckState (a Context and the counter nextEVar) owned  *)
(* by a caller, who extends the context with Context::add, draws names     *)
(* with CheckState::fresh_evar and asks is_subtype about pairs of types.   *)
(* The pure functions of the crate are operators, computed as the code     *)
(* computes them; a panic and an unbounded recursion are outcomes of their *)
(* own ("Panic", "Overflow"), distinct from Option::None.                  *)
(*                                                                         *)
(* Spec is that session.  CtxSpec is a caller working on one Context:     *)
(* it adds entries of every kind and calls the lookups, the               *)
(* well-formedness checks and split_at, hole and hole2 on it.             *)
(***************************************************************************)
EXTENDS Integers, Sequences, FiniteSets, TLC

\* ctx, nextEVar: the fields of the caller's CheckState.  last: the caller's
\* latest call, with its arguments, the state it was made in and what it
\* returned.  issued: the names fresh_evar has returned, in order.
VARIABLES ctx, nextEVar, last, issued

vars == <<ctx, nextEVar, last, issued>>

\* ------------------------------------------------------------------ bounds

\* Longest context the caller builds.
MaxCtxLen == 2

\* Largest value the fresh-name counter is driven to.
MaxCounter == 2

\* ------------------------------------------------------------------- types

\* Type::Unit
ty_unit == [tag |-> "Unit"]

\* Type::Var(v)
ty_var(v) == [tag |-> "Var", name |-> v]

\* Type::EVar(v)
ty_evar(v) == [tag |-> "EVar", name |-> v]

\* Type::Arr(dom, cod)
ty_arr(d, c) == [tag |-> "Arr", dom |-> d, cod |-> c]

\* Type::All(v, body)
ty_all(v, t) == [tag |-> "All", name |-> v, body |-> t]

\* Type::is_mono
RECURSIVE is_mono(_)
is_mono(t) ==
    CASE t.tag = "Unit" -> TRUE
      [] t.tag = "Var"  -> TRUE
      [] t.tag = "EVar" -> TRUE
      [] t.tag = "Arr"  -> is_mono(t.dom) /\ is_mono(t.cod)
      [] t.tag = "All"  -> FALSE

\* --------------------------------------------------------- context members

\* CtxMember::Var(v)
ctx_var(v) == [tag |-> "Var", name |-> v]

\* CtxMember::Assump(x, t)
ctx_assump(x, t) == [tag |-> "Assump", name |-> x, ty |-> t]

\* CtxMember::EVar(v)
ctx_evar(v) == [tag |-> "EVar", name |-> v]

\* CtxMember::Solved(v, t)
ctx_solved(v, t) == [tag |-> "Solved", name |-> v, ty |-> t]

\* CtxMember::Marker(v)
ctx_marker(v) == [tag |-> "Marker", name |-> v]

\* ----------------------------------------------------------------- context

\* Context::add: push on the right end.
add(c, m) == Append(c, m)

\* Context::elem: Vec::contains.
elem(c, m) == \E i \in 1..Len(c) : c[i] = m

\* Context::drop1: Vec::remove(0).
drop1(c) == Tail(c)

\* Iterator::take_while(|e| e != m): the entries left of the first m.
take_while_ne(c, m) ==
    LET hits == {i \in 1..Len(c) : c[i] = m}
        first == IF hits = {} THEN Len(c) + 1
                 ELSE CHOOSE i \in hits : \A j \in hits : i <= j
    IN SubSeq(c, 1, first - 1)

\* Iterator::skip_while(|e| e != m): the entries from the first m on.
skip_while_ne(c, m) == SubSeq(c, Len(take_while_ne(c, m)) + 1, Len(c))

\* Context::split_at
split_at(c, m) ==
    IF elem(c, m)
    THEN [kind |-> "Some", prefix |-> take_while_ne(c, m),
          remainder |-> skip_while_ne(c, m)]
    ELSE [kind |-> "None"]

\* hole leaving the member itself at the head of the right part.
hole_no_drop(c, m) ==
    LET pr == split_at(c, m) IN
    IF pr.kind = "Some"
    THEN [kind |-> "Some", left |-> pr.prefix, right |-> pr.remainder]
    ELSE [kind |-> "None"]

\* Context::hole
hole(c, m) ==
    LET pr == split_at(c, m) IN
    IF pr.kind = "Some"
    THEN [kind |-> "Some", left |-> pr.prefix, right |-> drop1(pr.remainder)]
    ELSE [kind |-> "None"]

\* hole2 looking for the second member in the whole context instead of in
\* what follows the first.
hole2_whole(c, m1, m2) ==
    LET h1 == hole(c, m1) IN
    IF h1.kind # "Some" THEN [kind |-> "None"]
    ELSE LET h2 == hole(c, m2) IN
         IF h2.kind # "Some" THEN [kind |-> "None"]
         ELSE [kind |-> "Some", a |-> h1.left, b |-> h2.left, c |-> h2.right]

\* Context::hole2: the hole at m1, then the hole at m2 in what follows m1;
\* `?` returns None as soon as either is not found.
hole2(c, m1, m2) ==
    LET h1 == hole(c, m1) IN
    IF h1.kind # "Some" THEN [kind |-> "None"]
    ELSE LET h2 == hole(h1.right, m2) IN
         IF h2.kind # "Some" THEN [kind |-> "None"]
         ELSE [kind |-> "Some", a |-> h1.left, b |-> h2.left, c |-> h2.right]

\* CtxMember::get_type
get_type(m) ==
    IF m.tag \in {"Assump", "Solved"}
    THEN [kind |-> "Some", ty |-> m.ty]
    ELSE [kind |-> "None"]

\* Context::filter with the predicate of `assump`: the Assump entries named
\* x, in order.
assumptions(c, x) == SelectSeq(c, LAMBDA m : m.tag = "Assump" /\ m.name = x)

\* lib.rs `assump`: match on the number of entries found.
assump(c, x) ==
    LET found == assumptions(c, x) IN
    CASE Len(found) = 0 -> [kind |-> "None"]
      [] Len(found) = 1 -> get_type(found[1])
      [] OTHER          -> [kind |-> "Panic"]

\* has_assumption answering with the first entry found when there are
\* several.
has_assumption_first(c, x) ==
    LET found == assumptions(c, x) IN
    IF Len(found) = 0 THEN [kind |-> "None"] ELSE get_type(found[1])

\* Context::has_assumption
has_assumption(c, x) ==
    LET found == SelectSeq(c, LAMBDA m : m.tag = "Assump" /\ m.name = x) IN
    CASE Len(found) = 0 -> [kind |-> "None"]
      [] Len(found) = 1 -> get_type(found[1])
      [] OTHER          -> [kind |-> "Panic"]

\* Context::has_solution
has_solution(c, e) ==
    LET found == SelectSeq(c, LAMBDA m : m.tag = "Solved" /\ m.name = e) IN
    CASE Len(found) = 0 -> [kind |-> "None"]
      [] Len(found) = 1 -> get_type(found[1])
      [] OTHER          -> [kind |-> "Panic"]

\* Context::filter with the predicate of `solution`: the Solved entries
\* named e, in order.
solutions(c, e) == SelectSeq(c, LAMBDA m : m.tag = "Solved" /\ m.name = e)

\* lib.rs `solution`: no entry -> None, one entry -> its type, more ->
\* panic.
solution(c, e) ==
    LET found == solutions(c, e) IN
    CASE Len(found) = 0 -> [kind |-> "None"]
      [] Len(found) = 1 -> [kind |-> "Some", ty |-> found[1].ty]
      [] OTHER          -> [kind |-> "Panic"]

\* The outcomes of a call that does not return a value.
Panic == [tag |-> "Panic"]
Overflow == [tag |-> "Overflow"]
Aborted(t) == t.tag \in {"Panic", "Overflow"}

\* apply_context returning the solution as stored, the context not applied
\* to it.
RECURSIVE apply_context_rec_once(_, _, _)
apply_context_rec_once(c, a, fuel) ==
    CASE a.tag = "Unit" -> ty_unit
      [] a.tag = "Var"  -> a
      [] a.tag = "EVar" ->
            LET tau == solution(c, a.name) IN
            IF tau.kind = "Panic" THEN Panic
            ELSE IF tau.kind = "None" THEN a
            ELSE tau.ty
      [] a.tag = "Arr"  ->
            LET x == apply_context_rec_once(c, a.dom, fuel) IN
            IF Aborted(x) THEN x
            ELSE LET y == apply_context_rec_once(c, a.cod, fuel) IN
                 IF Aborted(y) THEN y ELSE ty_arr(x, y)
      [] a.tag = "All"  ->
            LET t == apply_context_rec_once(c, a.body, fuel) IN
            IF Aborted(t) THEN t ELSE ty_all(a.name, t)

\* apply_context recursing on the existential itself instead of on its
\* solution.
RECURSIVE apply_context_rec_self(_, _, _)
apply_context_rec_self(c, a, fuel) ==
    CASE a.tag = "Unit" -> ty_unit
      [] a.tag = "Var"  -> a
      [] a.tag = "EVar" ->
            LET tau == solution(c, a.name) IN
            IF tau.kind = "Panic" THEN Panic
            ELSE IF tau.kind = "None" THEN a
            ELSE IF fuel = 0 THEN Overflow
            ELSE apply_context_rec_self(c, a, fuel - 1)
      [] a.tag = "Arr"  ->
            LET x == apply_context_rec_self(c, a.dom, fuel) IN
            IF Aborted(x) THEN x
            ELSE LET y == apply_context_rec_self(c, a.cod, fuel) IN
                 IF Aborted(y) THEN y ELSE ty_arr(x, y)
      [] a.tag = "All"  ->
            LET t == apply_context_rec_self(c, a.body, fuel) IN
            IF Aborted(t) THEN t ELSE ty_all(a.name, t)

\* apply_context with the depth of nested solution unfoldings counted: the
\* code recurses on the solution's type with no bound, so a chain of more
\* unfoldings than the context has entries repeats a name and never returns
\* (the stack overflows).  Sub-terms are evaluated left to right and the
\* first call that does not return decides the outcome.
RECURSIVE apply_context_rec(_, _, _)
apply_context_rec(c, a, fuel) ==
    CASE a.tag = "Unit" -> ty_unit
      [] a.tag = "Var"  -> a
      [] a.tag = "EVar" ->
            LET tau == solution(c, a.name) IN
            IF tau.kind = "Panic" THEN Panic
            ELSE IF tau.kind = "None" THEN a
            ELSE IF fuel = 0 THEN Overflow
            ELSE apply_context_rec(c, tau.ty, fuel - 1)
      [] a.tag = "Arr"  ->
            LET x == apply_context_rec(c, a.dom, fuel) IN
            IF Aborted(x) THEN x
            ELSE LET y == apply_context_rec(c, a.cod, fuel) IN
                 IF Aborted(y) THEN y ELSE ty_arr(x, y)
      [] a.tag = "All"  ->
            LET t == apply_context_rec(c, a.body, fuel) IN
            IF Aborted(t) THEN t ELSE ty_all(a.name, t)

\* lib.rs apply_context (Context::apply_context is the same function).
apply_context(c, a) == apply_context_rec(c, a, Len(c))

\* is_type_well_formed counting an existential as well-formed only while it
\* is unsolved.
RECURSIVE is_type_well_formed_unsolved(_, _)
is_type_well_formed_unsolved(c, a) ==
    CASE a.tag = "Unit" -> "True"
      [] a.tag = "Var"  -> IF elem(c, ctx_var(a.name)) THEN "True" ELSE "False"
      [] a.tag = "EVar" -> IF elem(c, ctx_evar(a.name)) THEN "True" ELSE "False"
      [] a.tag = "Arr"  ->
            LET x == is_type_well_formed_unsolved(c, a.dom) IN
            IF x # "True" THEN x ELSE is_type_well_formed_unsolved(c, a.cod)
      [] a.tag = "All"  ->
            is_type_well_formed_unsolved(add(c, ctx_var(a.name)), a.body)

\* lib.rs is_type_well_formed: "True", "False", or "Panic" when the lookup
\* of a solution panics.  `||` and `&&` evaluate their right operand only
\* when needed.
RECURSIVE is_type_well_formed(_, _)
is_type_well_formed(c, a) ==
    CASE a.tag = "Unit" -> "True"
      [] a.tag = "Var"  -> IF elem(c, ctx_var(a.name)) THEN "True" ELSE "False"
      [] a.tag = "EVar" ->
            IF elem(c, ctx_evar(a.name)) THEN "True"
            ELSE LET tau == solution(c, a.name) IN
                 IF tau.kind = "Panic" THEN "Panic"
                 ELSE IF tau.kind = "Some" THEN "True" ELSE "False"
      [] a.tag = "Arr"  ->
            LET x == is_type_well_formed(c, a.dom) IN
            IF x # "True" THEN x ELSE is_type_well_formed(c, a.cod)
      [] a.tag = "All"  ->
            is_type_well_formed(add(c, ctx_var(a.name)), a.body)

\* Context::is_type_well_formed: the method, looking solutions up with
\* has_solution.
RECURSIVE Context_is_type_well_formed(_, _)
Context_is_type_well_formed(c, a) ==
    CASE a.tag = "Unit" -> "True"
      [] a.tag = "Var"  -> IF elem(c, ctx_var(a.name)) THEN "True" ELSE "False"
      [] a.tag = "EVar" ->
            IF elem(c, ctx_evar(a.name)) THEN "True"
            ELSE LET tau == has_solution(c, a.name) IN
                 IF tau.kind = "Panic" THEN "Panic"
                 ELSE IF tau.kind = "Some" THEN "True" ELSE "False"
      [] a.tag = "Arr"  ->
            LET x == Context_is_type_well_formed(c, a.dom) IN
            IF x # "True" THEN x ELSE Context_is_type_well_formed(c, a.cod)
      [] a.tag = "All"  ->
            Context_is_type_well_formed(add(c, ctx_var(a.name)), a.body)

\* ------------------------------------------------------------- CheckState

CheckState(c, n) == [ctx |-> c, nextEVar |-> n]

\* The name format!("e{}", n) gives.
EVarName(n) == <<"e0", "e1", "e2", "e3", "e4", "e5">>[n + 1]

\* fresh_evar handing the name out without stepping the counter.
fresh_evar_stuck(s) == [var |-> EVarName(s.nextEVar), s |-> s]

\* CheckState::fresh_evar: the name and the state after the call.
fresh_evar(s) ==
    [var |-> EVarName(s.nextEVar), s |-> CheckState(s.ctx, s.nextEVar + 1)]

\* -------------------------------------------------------------- is_subtype

None == [kind |-> "None"]
Some(s) == [kind |-> "Some", s |-> s]

\* is_subtype without the arm for two existentials of one name.
RECURSIVE is_subtype_no_evar_arm(_, _, _)
is_subtype_no_evar_arm(s, a, b) ==
    CASE a.tag = "Unit" /\ b.tag = "Unit" -> Some(s)
      [] a.tag = "Var" /\ b.tag = "Var" /\ a.name = b.name -> Some(s)
      [] a.tag = "Arr" /\ b.tag = "Arr" ->
            LET r1 == is_subtype_no_evar_arm(s, b.dom, a.dom) IN
            IF r1.kind # "Some" THEN r1
            ELSE LET b2 == apply_context(r1.s.ctx, a.cod) IN
                 IF Aborted(b2) THEN [kind |-> b2.tag]
                 ELSE LET d2 == apply_context(r1.s.ctx, b.cod) IN
                      IF Aborted(d2) THEN [kind |-> d2.tag]
                      ELSE is_subtype_no_evar_arm(r1.s, b2, d2)
      [] a.tag = "All" -> None
      [] OTHER -> None

\* is_subtype comparing the codomains as given, the context not applied.
RECURSIVE is_subtype_no_apply(_, _, _)
is_subtype_no_apply(s, a, b) ==
    CASE a.tag = "Unit" /\ b.tag = "Unit" -> Some(s)
      [] a.tag = "Var" /\ b.tag = "Var" /\ a.name = b.name -> Some(s)
      [] a.tag = "EVar" /\ b.tag = "EVar" /\ a.name = b.name -> Some(s)
      [] a.tag = "Arr" /\ b.tag = "Arr" ->
            LET r1 == is_subtype_no_apply(s, b.dom, a.dom) IN
            IF r1.kind # "Some" THEN r1
            ELSE is_subtype_no_apply(r1.s, a.cod, b.cod)
      [] a.tag = "All" -> None
      [] OTHER -> None

\* is_subtype with an arm that solves an existential against any other type,
\* in place, without an occurs check.
RECURSIVE is_subtype_solve_unchecked(_, _, _)
is_subtype_solve_unchecked(s, a, b) ==
    LET solve(alpha, tau) ==
            LET i == Len(take_while_ne(s.ctx, ctx_evar(alpha))) + 1 IN
            Some(CheckState([s.ctx EXCEPT ![i] = ctx_solved(alpha, tau)],
                            s.nextEVar))
    IN
    CASE a.tag = "Unit" /\ b.tag = "Unit" -> Some(s)
      [] a.tag = "Var" /\ b.tag = "Var" /\ a.name = b.name -> Some(s)
      [] a.tag = "EVar" /\ b.tag = "EVar" /\ a.name = b.name -> Some(s)
      [] a.tag = "Arr" /\ b.tag = "Arr" ->
            LET r1 == is_subtype_solve_unchecked(s, b.dom, a.dom) IN
            IF r1.kind # "Some" THEN r1
            ELSE LET b2 == apply_context(r1.s.ctx, a.cod) IN
                 IF Aborted(b2) THEN [kind |-> b2.tag]
                 ELSE LET d2 == apply_context(r1.s.ctx, b.cod) IN
                      IF Aborted(d2) THEN [kind |-> d2.tag]
                      ELSE is_subtype_solve_unchecked(r1.s, b2, d2)
      [] a.tag = "All" -> None
      [] a.tag = "EVar" /\ b.tag # "All" /\ elem(s.ctx, ctx_evar(a.name)) ->
            solve(a.name, b)
      [] b.tag = "EVar" /\ elem(s.ctx, ctx_evar(b.name)) ->
            solve(b.name, a)
      [] OTHER -> None

\* is_subtype whose last arm accepts instead of refusing.
RECURSIVE is_subtype_accept_rest(_, _, _)
is_subtype_accept_rest(s, a, b) ==
    CASE a.tag = "Unit" /\ b.tag = "Unit" -> Some(s)
      [] a.tag = "Var" /\ b.tag = "Var" /\ a.name = b.name -> Some(s)
      [] a.tag = "EVar" /\ b.tag = "EVar" /\ a.name = b.name -> Some(s)
      [] a.tag = "Arr" /\ b.tag = "Arr" ->
            LET r1 == is_subtype_accept_rest(s, b.dom, a.dom) IN
            IF r1.kind # "Some" THEN r1
            ELSE LET b2 == apply_context(r1.s.ctx, a.cod) IN
                 IF Aborted(b2) THEN [kind |-> b2.tag]
                 ELSE LET d2 == apply_context(r1.s.ctx, b.cod) IN
                      IF Aborted(d2) THEN [kind |-> d2.tag]
                      ELSE is_subtype_accept_rest(r1.s, b2, d2)
      [] a.tag = "All" -> None
      [] OTHER -> Some(s)

\* is_subtype whose arrow arm falls back on the state of the domain check
\* when the codomain check fails.
RECURSIVE is_subtype_leak(_, _, _)
is_subtype_leak(s, a, b) ==
    CASE a.tag = "Unit" /\ b.tag = "Unit" -> Some(s)
      [] a.tag = "Var" /\ b.tag = "Var" /\ a.name = b.name -> Some(s)
      [] a.tag = "EVar" /\ b.tag = "EVar" /\ a.name = b.name -> Some(s)
      [] a.tag = "Arr" /\ b.tag = "Arr" ->
            LET r1 == is_subtype_leak(s, b.dom, a.dom) IN
            IF r1.kind # "Some" THEN r1
            ELSE LET b2 == apply_context(r1.s.ctx, a.cod) IN
                 IF Aborted(b2) THEN [kind |-> b2.tag]
                 ELSE LET d2 == apply_context(r1.s.ctx, b.cod) IN
                      IF Aborted(d2) THEN [kind |-> d2.tag]
                      ELSE LET r2 == is_subtype_leak(r1.s, b2, d2) IN
                           IF r2.kind = "None" THEN r1 ELSE r2
      [] a.tag = "All" -> None
      [] OTHER -> None

\* is_subtype leaving a marker in the context when it compares an
\* existential with itself.
RECURSIVE is_subtype_marking(_, _, _)
is_subtype_marking(s, a, b) ==
    CASE a.tag = "Unit" /\ b.tag = "Unit" -> Some(s)
      [] a.tag = "Var" /\ b.tag = "Var" /\ a.name = b.name -> Some(s)
      [] a.tag = "EVar" /\ b.tag = "EVar" /\ a.name = b.name ->
            Some(CheckState(add(s.ctx, ctx_marker(a.name)), s.nextEVar))
      [] a.tag = "Arr" /\ b.tag = "Arr" ->
            LET r1 == is_subtype_marking(s, b.dom, a.dom) IN
            IF r1.kind # "Some" THEN r1
            ELSE LET b2 == apply_context(r1.s.ctx, a.cod) IN
                 IF Aborted(b2) THEN [kind |-> b2.tag]
                 ELSE LET d2 == apply_context(r1.s.ctx, b.cod) IN
                      IF Aborted(d2) THEN [kind |-> d2.tag]
                      ELSE is_subtype_marking(r1.s, b2, d2)
      [] a.tag = "All" -> None
      [] OTHER -> None

\* is_subtype accepting a quantified type against itself.
RECURSIVE is_subtype_all_refl(_, _, _)
is_subtype_all_refl(s, a, b) ==
    CASE a.tag = "Unit" /\ b.tag = "Unit" -> Some(s)
      [] a.tag = "Var" /\ b.tag = "Var" /\ a.name = b.name -> Some(s)
      [] a.tag = "EVar" /\ b.tag = "EVar" /\ a.name = b.name -> Some(s)
      [] a.tag = "Arr" /\ b.tag = "Arr" ->
            LET r1 == is_subtype_all_refl(s, b.dom, a.dom) IN
            IF r1.kind # "Some" THEN r1
            ELSE LET b2 == apply_context(r1.s.ctx, a.cod) IN
                 IF Aborted(b2) THEN [kind |-> b2.tag]
                 ELSE LET d2 == apply_context(r1.s.ctx, b.cod) IN
                      IF Aborted(d2) THEN [kind |-> d2.tag]
                      ELSE is_subtype_all_refl(r1.s, b2, d2)
      [] a.tag = "All" -> IF a = b THEN Some(s) ELSE None
      [] OTHER -> None

\* lib.rs is_subtype: the match on (a, b), first arm that matches.
RECURSIVE is_subtype(_, _, _)
is_subtype(s, a, b) ==
    CASE a.tag = "Unit" /\ b.tag = "Unit" -> Some(s)
      [] a.tag = "Var" /\ b.tag = "Var" /\ a.name = b.name -> Some(s)
      [] a.tag = "EVar" /\ b.tag = "EVar" /\ a.name = b.name -> Some(s)
      [] a.tag = "Arr" /\ b.tag = "Arr" ->
            LET r1 == is_subtype(s, b.dom, a.dom) IN
            IF r1.kind # "Some" THEN r1
            ELSE LET b2 == apply_context(r1.s.ctx, a.cod) IN
                 IF Aborted(b2) THEN [kind |-> b2.tag]
                 ELSE LET d2 == apply_context(r1.s.ctx, b.cod) IN
                      IF Aborted(d2) THEN [kind |-> d2.tag]
                      ELSE is_subtype(r1.s, b2, d2)
      [] a.tag = "All" -> None
      [] OTHER -> None

\* ------------------------------------------------------------ input domains

TVars == {"a", "b"}
EVars == {"e0", "e1"}

\* The entries the caller adds: declarations of rigid and existential
\* variables and solutions.  Nothing in Context::add checks an entry against
\* the entries before it, so the contexts built include those with a second
\* solution for a name, with two solutions that mention each other, and
\* with a solution that is not a monotype.
Members ==
    {ctx_var(v) : v \in TVars}
    \cup {ctx_evar("e0")}
    \cup {ctx_solved("e0", t) :
            t \in {ty_unit, ty_evar("e1"), ty_all("b", ty_unit)}}
    \cup {ctx_solved("e1", ty_evar("e0"))}

Leaves == {ty_unit} \cup {ty_var(v) : v \in TVars} \cup {ty_evar(e) : e \in EVars}

Arrows == {ty_arr(x, y) : x \in Leaves, y \in Leaves}

\* Every type of depth at most one, and the quantified identity.
Types ==
    Leaves \cup Arrows
    \cup {ty_all(v, t) : v \in TVars, t \in Leaves}
    \cup {ty_all("b", ty_arr(ty_var("b"), ty_var("b")))}

\* The types the caller asks is_subtype about.
QueryTypes ==
    {ty_unit, ty_var("a"), ty_evar("e0"),
     ty_arr(ty_unit, ty_unit),
     ty_arr(ty_var("a"), ty_var("a")),
     ty_arr(ty_var("a"), ty_var("b")),
     ty_arr(ty_unit, ty_evar("e0")),
     ty_arr(ty_unit, ty_evar("e1")),
     ty_arr(ty_evar("e0"), ty_unit),
     ty_all("b", ty_unit),
     ty_all("b", ty_arr(ty_var("b"), ty_var("b"))),
     ty_arr(ty_unit, ty_all("b", ty_unit)),
     ty_arr(ty_all("b", ty_unit), ty_unit)}

\* The calls the caller makes: every query type against itself, and the
\* pairs that take each arm of is_subtype's match to each of its outcomes.
QueryPairs ==
    {<<t, t>> : t \in QueryTypes}
    \cup {<<ty_arr(ty_var("a"), ty_var("b")), ty_arr(ty_var("b"), ty_var("a"))>>,
          <<ty_arr(ty_var("a"), ty_var("a")), ty_arr(ty_var("a"), ty_var("b"))>>,
          <<ty_arr(ty_unit, ty_evar("e0")), ty_arr(ty_unit, ty_unit)>>,
          <<ty_arr(ty_unit, ty_evar("e1")), ty_arr(ty_unit, ty_evar("e0"))>>,
          <<ty_all("b", ty_arr(ty_var("b"), ty_var("b"))),
            ty_arr(ty_var("a"), ty_var("a"))>>,
          <<ty_all("b", ty_unit), ty_unit>>,
          <<ty_unit, ty_all("b", ty_unit)>>,
          <<ty_evar("e0"), ty_unit>>,
          <<ty_unit, ty_evar("e0")>>,
          <<ty_evar("e0"), ty_arr(ty_evar("e0"), ty_unit)>>,
          <<ty_arr(ty_evar("e0"), ty_unit), ty_evar("e0")>>,
          <<ty_unit, ty_arr(ty_unit, ty_unit)>>,
          <<ty_var("a"), ty_var("b")>>,
          <<ty_unit, ty_var("a")>>,
          <<ty_var("a"), ty_unit>>}

\* ------------------------------------------------------------------ session

NoCall == [op |-> "none"]

\* The process is gone once a call panicked or overflowed the stack.
Alive == ~(last.op = "is_subtype" /\ last.res.kind \in {"Panic", "Overflow"})

state == CheckState(ctx, nextEVar)

\* CheckState { ctx: Context(vec![]), nextEVar: 0 }
Init ==
    /\ ctx = <<>>
    /\ nextEVar = 0
    /\ last = NoCall
    /\ issued = <<>>

\* s.ctx = s.ctx.add(m)
Add(m) ==
    /\ Alive
    /\ Len(ctx) < MaxCtxLen
    /\ ctx' = add(ctx, m)
    /\ last' = [op |-> "add", m |-> m]
    /\ UNCHANGED <<nextEVar, issued>>

\* s.fresh_evar()
FreshEVar ==
    /\ Alive
    /\ nextEVar < MaxCounter
    /\ LET r == fresh_evar(state) IN
        /\ ctx' = r.s.ctx
        /\ nextEVar' = r.s.nextEVar
        /\ last' = [op |-> "fresh_evar", var |-> r.var, pre |-> state]
        /\ issued' = Append(issued, r.var)

\* is_subtype(s.clone(), a, b): on Some(s2) the session goes on with s2; on
\* None the caller is left with the state it had; a panic or a stack
\* overflow ends the process.
Subtype(a, b) ==
    /\ Alive
    /\ LET r == is_subtype(state, a, b) IN
        /\ last' = [op |-> "is_subtype", a |-> a, b |-> b, pre |-> state, res |-> r]
        /\ IF r.kind = "Some"
           THEN ctx' = r.s.ctx /\ nextEVar' = r.s.nextEVar
           ELSE UNCHANGED <<ctx, nextEVar>>
    /\ UNCHANGED issued

Next ==
    \/ \E m \in Members : Add(m)
    \/ FreshEVar
    \/ \E q \in QueryPairs : Subtype(q[1], q[2])

Spec == Init /\ [][Next]_vars

\* ------------------------------------------------- the context's invariants

\* The existential names a type mentions.
RECURSIVE FEV(_)
FEV(t) ==
    CASE t.tag = "EVar" -> {t.name}
      [] t.tag = "Arr"  -> FEV(t.dom) \cup FEV(t.cod)
      [] t.tag = "All"  -> FEV(t.body)
      [] OTHER          -> {}

\* The entries that declare a name, and the namespace they declare it in.
DeclKind(m) ==
    CASE m.tag \in {"EVar", "Solved"} -> "existential"
      [] m.tag = "Var"                -> "rigid"
      [] m.tag = "Assump"             -> "term"
      [] OTHER                        -> "none"

\* Uniqueness invariant: no two entries declare the same name.
CtxUnique(c) ==
    \A i, j \in 1..Len(c) :
        i < j /\ DeclKind(c[i]) # "none" /\ DeclKind(c[i]) = DeclKind(c[j])
            => c[i].name # c[j].name

\* Ordering invariant: a solution mentions only existentials declared
\* strictly to its left.
CtxOrdered(c) ==
    \A i \in 1..Len(c) :
        c[i].tag = "Solved" =>
            \A e \in FEV(c[i].ty) :
                \E j \in 1..(i - 1) :
                    DeclKind(c[j]) = "existential" /\ c[j].name = e

\* Every solution is a monotype.
CtxMonoSolutions(c) ==
    \A i \in 1..Len(c) : c[i].tag = "Solved" => is_mono(c[i].ty)

\* Monotypes of depth two, for the claims about one type.
DeepMonoTypes ==
    {ty_arr(ty_arr(x, ty_unit), x) : x \in Leaves}
    \cup {ty_arr(x, ty_arr(ty_unit, x)) : x \in Leaves}

IsCall == last.op = "is_subtype"

\* No call is in progress or just returned: the caller is about to choose.
Idle == ~IsCall

\* ----------------------------------------------------------------------- C1

\* The statement of C1 for the session state s.
ReflexiveAt(s) ==
    \A T \in Types \cup DeepMonoTypes :
        is_mono(T) /\ is_type_well_formed(s.ctx, T) = "True"
            => is_subtype(s, T, T) = Some(s)

\* C1 as stated: in every state s, for every type T with no All that is
\* well-formed under s.ctx, is_subtype(s, T, T) succeeds and returns s (the
\* same context and the same counter).
C1_ReflexivityAnyContext ==
    (IsCall /\ last.a = last.b /\ is_mono(last.a)
      /\ is_type_well_formed(last.pre.ctx, last.a) = "True")
        => last.res = Some(last.pre)

\* C1, amended: reflexivity holds in every state whose context keeps the
\* invariants of the data model (no name declared twice, solutions mention
\* only existentials declared to their left, solutions are monotypes): for
\* every type T with no All that is well-formed under s.ctx,
\* is_subtype(s, T, T) returns Some(s), and the session goes on in s.
C1_Reflexivity ==
    /\ (CtxUnique(ctx) /\ CtxOrdered(ctx) /\ CtxMonoSolutions(ctx))
            => ReflexiveAt(state)
    /\ (IsCall /\ last.a = last.b /\ is_mono(last.a)
          /\ is_type_well_formed(last.pre.ctx, last.a) = "True"
          /\ CtxUnique(last.pre.ctx) /\ CtxOrdered(last.pre.ctx)
          /\ CtxMonoSolutions(last.pre.ctx))
            => (last.res = Some(last.pre) /\ state = last.pre)

\* A reflexive call on an arrow whose codomain is a solved existential
\* succeeded under a context that keeps the invariants.
C1_Witness ==
    /\ IsCall
    /\ last.a = ty_arr(ty_unit, ty_evar("e0"))
    /\ last.b = last.a
    /\ last.pre.ctx = <<ctx_solved("e0", ty_unit)>>
    /\ last.res = Some(last.pre)

\* ----------------------------------------------------------------------- C2

\* What the arrow rule gives for Arr(a1,a2) <: Arr(b1,b2) in state s: the
\* domains are compared in swapped order; if that yields s1, the codomains
\* are compared in s1 after s1's context is applied to both.
ArrowRule(s, a, b) ==
    LET r1 == is_subtype(s, b.dom, a.dom) IN
    IF r1.kind # "Some" THEN [ok |-> FALSE]
    ELSE LET a2 == apply_context(r1.s.ctx, a.cod)
             b2 == apply_context(r1.s.ctx, b.cod)
         IN IF Aborted(a2) \/ Aborted(b2) THEN [ok |-> FALSE]
            ELSE LET r2 == is_subtype(r1.s, a2, b2) IN
                 IF r2.kind = "Some" THEN [ok |-> TRUE, res |-> r2]
                 ELSE [ok |-> FALSE]

\* The call's result agrees with the arrow rule.
AgreesWithArrowRule(r, s, a, b) ==
    LET rule == ArrowRule(s, a, b) IN
    /\ (r.kind = "Some") <=> rule.ok
    /\ rule.ok => r = rule.res

\* C2: is_subtype(s, Arr(a1,a2), Arr(b1,b2)) succeeds exactly when
\* is_subtype(s, b1, a1) succeeds with s1 and is_subtype(s1,
\* apply_context(s1.ctx, a2), apply_context(s1.ctx, b2)) succeeds, and it
\* returns the second call's state; with Var a and Var b declared,
\* a -> b <: a -> b succeeds and a -> b <: b -> a fails.
C2_ArrowRule ==
    /\ Idle => \A a \in Arrows, b \in Arrows :
                    AgreesWithArrowRule(is_subtype(state, a, b), state, a, b)
    /\ (IsCall /\ last.a.tag = "Arr" /\ last.b.tag = "Arr")
            => AgreesWithArrowRule(last.res, last.pre, last.a, last.b)
    /\ (elem(ctx, ctx_var("a")) /\ elem(ctx, ctx_var("b")))
            => /\ is_subtype(state, ty_arr(ty_var("a"), ty_var("b")),
                             ty_arr(ty_var("a"), ty_var("b"))).kind = "Some"
               /\ is_subtype(state, ty_arr(ty_var("a"), ty_var("b")),
                             ty_arr(ty_var("b"), ty_var("a"))).kind = "None"

\* A call on two arrows succeeded because the context solved the codomain of
\* the left one to the codomain of the right one.
C2_Witness ==
    /\ IsCall
    /\ last.a = ty_arr(ty_unit, ty_evar("e0"))
    /\ last.b = ty_arr(ty_unit, ty_unit)
    /\ last.pre.ctx = <<ctx_solved("e0", ty_unit)>>
    /\ last.res = Some(last.pre)

\* ----------------------------------------------------------------------- C3

\* A[r/v]: the type A with the rigid variable v replaced by r, up to a
\* quantifier that binds v again.  The crate has no substitution; this is
\* the one the quantifier rules of the specification speak of.
RECURSIVE subst(_, _, _)
subst(t, v, r) ==
    CASE t.tag = "Var" -> IF t.name = v THEN r ELSE t
      [] t.tag = "Arr" -> ty_arr(subst(t.dom, v, r), subst(t.cod, v, r))
      [] t.tag = "All" -> IF t.name = v THEN t
                          ELSE ty_all(t.name, subst(t.body, v, r))
      [] OTHER         -> t

\* The state the left-instantiation rule checks the body in: a fresh name
\* alpha drawn, Marker(alpha) and EVar(alpha) pushed.
InstantiateLeftState(s) ==
    LET f == fresh_evar(s) IN
    CheckState(add(add(f.s.ctx, ctx_marker(f.var)), ctx_evar(f.var)),
               f.s.nextEVar)

\* C3: for All(v, A) <: B with B not a quantifier, is_subtype pushes
\* Marker(alpha) and EVar(alpha) for a fresh alpha and checks A[alpha/v] <: B;
\* when that succeeds the call succeeds and returns the context truncated to
\* the entries left of the marker.  With context [Var a],
\* All(b, b -> b) <: a -> a succeeds and returns the context [Var a].
C3_InstantiateLeft ==
    /\ (IsCall /\ last.a.tag = "All" /\ last.b.tag # "All") =>
          LET alpha == fresh_evar(last.pre).var
              r1 == is_subtype(InstantiateLeftState(last.pre),
                               subst(last.a.body, last.a.name, ty_evar(alpha)),
                               last.b)
          IN r1.kind = "Some" =>
               /\ last.res.kind = "Some"
               /\ last.res.s.ctx = hole(r1.s.ctx, ctx_marker(alpha)).left
    /\ ( /\ IsCall
         /\ last.pre.ctx = <<ctx_var("a")>>
         /\ last.a = ty_all("b", ty_arr(ty_var("b"), ty_var("b")))
         /\ last.b = ty_arr(ty_var("a"), ty_var("a")) )
        => (last.res.kind = "Some" /\ last.res.s.ctx = <<ctx_var("a")>>)

\* ----------------------------------------------------------------------- C4

\* The state the right-generalization rule checks the body in: a fresh name
\* drawn and declared as a rigid variable.
GeneralizeRightState(s) ==
    LET f == fresh_evar(s) IN
    CheckState(add(f.s.ctx, ctx_var(f.var)), f.s.nextEVar)

\* C4: for any A, is_subtype(s, A, All(v, B)) draws a fresh rigid name v1,
\* checks A <: B[v1/v] under s.ctx extended with Var(v1), succeeds whenever
\* that check succeeds, and returns the part of the resulting context
\* strictly left of the Var(v1) entry.
C4_GeneralizeRight ==
    (IsCall /\ last.b.tag = "All") =>
        LET v1 == fresh_evar(last.pre).var
            r1 == is_subtype(GeneralizeRightState(last.pre), last.a,
                             subst(last.b.body, last.b.name, ty_var(v1)))
        IN r1.kind = "Some" =>
             /\ last.res.kind = "Some"
             /\ last.res.s.ctx = hole(r1.s.ctx, ctx_var(v1)).left

\* ----------------------------------------------------------------------- C5

\* The context c with the first EVar(alpha) entry replaced, in place, by
\* Solved(alpha, tau).
SolvedInPlace(c, alpha, tau) ==
    LET i == Len(take_while_ne(c, ctx_evar(alpha))) + 1 IN
    [c EXCEPT ![i] = ctx_solved(alpha, tau)]

\* C5: when EVar(alpha) is declared and unsolved in s.ctx and tau is a
\* well-formed monotype other than EVar(alpha) that does not contain alpha,
\* is_subtype(s, EVar(alpha), tau) and is_subtype(s, tau, EVar(alpha))
\* succeed and return a context of the same length in which the slot of
\* EVar(alpha) holds Solved(alpha, tau) and every other slot is unchanged.
C5_SolveInPlace ==
    /\ \A alpha \in EVars :
        ( /\ IsCall
          /\ last.a = ty_evar(alpha)
          /\ elem(last.pre.ctx, ctx_evar(alpha))
          /\ solution(last.pre.ctx, alpha).kind = "None"
          /\ is_mono(last.b)
          /\ last.b # ty_evar(alpha)
          /\ alpha \notin FEV(last.b)
          /\ is_type_well_formed(last.pre.ctx, last.b) = "True" )
        => last.res = Some(CheckState(SolvedInPlace(last.pre.ctx, alpha, last.b),
                                      last.pre.nextEVar))
    /\ \A alpha \in EVars :
        ( /\ IsCall
          /\ last.b = ty_evar(alpha)
          /\ elem(last.pre.ctx, ctx_evar(alpha))
          /\ solution(last.pre.ctx, alpha).kind = "None"
          /\ is_mono(last.a)
          /\ last.a # ty_evar(alpha)
          /\ alpha \notin FEV(last.a)
          /\ is_type_well_formed(last.pre.ctx, last.a) = "True" )
        => last.res = Some(CheckState(SolvedInPlace(last.pre.ctx, alpha, last.a),
                                      last.pre.nextEVar))

\* ----------------------------------------------------------------------- C6

\* A solution that mentions the name it solves.
SelfSolved(m) == m.tag = "Solved" /\ m.name \in FEV(m.ty)

\* C6: for every state s and every monotype tau that contains EVar(alpha)
\* as a proper subterm, is_subtype(s, EVar(alpha), tau) and
\* is_subtype(s, tau, EVar(alpha)) return no result (so does EVar(alpha)
\* against Arr(EVar(alpha), Unit)), and no call returns a context with a
\* Solved(alpha, _) entry mentioning alpha that the caller had not put there.
C6_OccursCheck ==
    /\ \A alpha \in EVars, tau \in Types \cup DeepMonoTypes :
          (is_mono(tau) /\ tau # ty_evar(alpha) /\ alpha \in FEV(tau)) =>
            /\ is_subtype(state, ty_evar(alpha), tau) = None
            /\ is_subtype(state, tau, ty_evar(alpha)) = None
    /\ (IsCall /\ last.res.kind = "Some") =>
          \A i \in 1..Len(last.res.s.ctx) :
              SelfSolved(last.res.s.ctx[i]) => elem(last.pre.ctx, last.res.s.ctx[i])

\* The call EVar(e0) <: Arr(EVar(e0), Unit), with e0 declared and unsolved,
\* returned no result.
C6_Witness ==
    /\ IsCall
    /\ last.a = ty_evar("e0")
    /\ last.b = ty_arr(ty_evar("e0"), ty_unit)
    /\ elem(last.pre.ctx, ctx_evar("e0"))
    /\ last.res = None

\* ----------------------------------------------------------------------- C7

\* No arm of the match before the last one takes the pair (a, b).
NoArmMatches(a, b) ==
    /\ ~(a.tag = "Unit" /\ b.tag = "Unit")
    /\ ~(a.tag = "Var" /\ b.tag = "Var" /\ a.name = b.name)
    /\ ~(a.tag = "EVar" /\ b.tag = "EVar" /\ a.name = b.name)
    /\ ~(a.tag = "Arr" /\ b.tag = "Arr")
    /\ a.tag # "All"

\* C7: a pair of types that no dispatch case covers yields no result; so do
\* Unit <: Arr(Unit, Unit), Var(a) <: Var(b) with a # b, and Unit against a
\* Var, in every state.
C7_CatchAll ==
    /\ Idle => \A a \in Types, b \in Types :
                    NoArmMatches(a, b) => is_subtype(state, a, b) = None
    /\ (IsCall /\ NoArmMatches(last.a, last.b)) => last.res = None
    /\ is_subtype(state, ty_unit, ty_arr(ty_unit, ty_unit)) = None
    /\ is_subtype(state, ty_var("a"), ty_var("b")) = None
    /\ is_subtype(state, ty_unit, ty_var("a")) = None
    /\ is_subtype(state, ty_var("a"), ty_unit) = None

\* The call Unit <: Arr(Unit, Unit) returned no result.
C7_Witness ==
    /\ IsCall
    /\ last.a = ty_unit
    /\ last.b = ty_arr(ty_unit, ty_unit)
    /\ last.res = None

\* ----------------------------------------------------------------------- C8

\* The domain check of a <: b succeeds in s and the codomain check fails.
CodomainFails(s, a, b) ==
    LET r1 == is_subtype(s, b.dom, a.dom) IN
    IF r1.kind # "Some" THEN FALSE
    ELSE LET a2 == apply_context(r1.s.ctx, a.cod)
             b2 == apply_context(r1.s.ctx, b.cod)
         IN IF Aborted(a2) \/ Aborted(b2) THEN FALSE
            ELSE is_subtype(r1.s, a2, b2) = None

\* C8: when is_subtype returns no result the session's context and counter
\* are those it had before the call, and an arrow whose domain check
\* succeeded and whose codomain check failed returns no result: nothing of
\* the domain check's state is handed to the caller.
C8_FailureAtomic ==
    /\ (IsCall /\ last.res = None) => state = last.pre
    /\ Idle => \A a \in Arrows, b \in Arrows :
                    CodomainFails(state, a, b) => is_subtype(state, a, b) = None
    /\ (IsCall /\ last.a.tag = "Arr" /\ last.b.tag = "Arr"
          /\ CodomainFails(last.pre, last.a, last.b)) => last.res = None

\* The call a -> a <: a -> b returned no result after its domain check
\* succeeded, and left the session as it was.
C8_Witness ==
    /\ IsCall
    /\ last.a = ty_arr(ty_var("a"), ty_var("a"))
    /\ last.b = ty_arr(ty_var("a"), ty_var("b"))
    /\ CodomainFails(last.pre, last.a, last.b)
    /\ last.res = None
    /\ state = last.pre
    /\ Len(ctx) > 0

\* ----------------------------------------------------------------------- C9

\* Applying c to T returns, the result is a fixed point of applying c, it
\* holds no existential c has a solution for, and T itself is returned when
\* T is Unit, a Var or an existential c has no solution for.
StableUnder(c, T) ==
    LET t1 == apply_context(c, T) IN
    /\ ~Aborted(t1)
    /\ apply_context(c, t1) = t1
    /\ \A e \in FEV(t1) : solution(c, e).kind = "None"
    /\ (T.tag \in {"Unit", "Var"}) => t1 = T
    /\ (T.tag = "EVar" /\ solution(c, T.name).kind = "None") => t1 = T

\* C9 as stated: after any successful is_subtype(s, A, B) returning s1,
\* applying s1.ctx to A and to B is stable.
C9_StableAfterAnyCall ==
    (IsCall /\ last.res.kind = "Some") =>
        /\ StableUnder(last.res.s.ctx, last.a)
        /\ StableUnder(last.res.s.ctx, last.b)

\* C9, amended: after a successful is_subtype(s, A, B) returning s1 whose
\* context keeps the uniqueness and ordering invariants, applying s1.ctx to
\* A and to B is stable: apply_context returns, applying again changes
\* nothing, the result holds no solved existential, and Unit, Var and
\* unsolved EVar leaves are unchanged.  (Under such a context this holds of
\* every type, asked about or not.)
C9_StableAfterCall ==
    /\ (IsCall /\ last.res.kind = "Some"
          /\ CtxUnique(last.res.s.ctx) /\ CtxOrdered(last.res.s.ctx)) =>
            /\ StableUnder(last.res.s.ctx, last.a)
            /\ StableUnder(last.res.s.ctx, last.b)
    /\ (CtxUnique(ctx) /\ CtxOrdered(ctx)) =>
            \A T \in Types \cup DeepMonoTypes : StableUnder(ctx, T)

\* A call succeeded on two arrows whose codomains the context resolves
\* through a chain of two solutions.
C9_Witness ==
    /\ IsCall
    /\ last.res.kind = "Some"
    /\ last.res.s.ctx = <<ctx_solved("e0", ty_unit), ctx_solved("e1", ty_evar("e0"))>>
    /\ last.a = ty_arr(ty_unit, ty_evar("e1"))
    /\ last.b = ty_arr(ty_unit, ty_evar("e0"))
    /\ apply_context(last.res.s.ctx, last.a) = ty_arr(ty_unit, ty_unit)

\* ---------------------------------------------------------------------- C10

Returns(r) == r.kind \in {"Some", "None"}

\* C10: under a context that keeps the ordering and uniqueness invariants,
\* apply_context(ctx, T) returns for every type T, and every is_subtype
\* call returns a state or no result.
C10_Termination ==
    /\ (CtxUnique(ctx) /\ CtxOrdered(ctx)) =>
          /\ \A T \in Types \cup DeepMonoTypes : ~Aborted(apply_context(ctx, T))
          /\ \A q \in QueryPairs : Returns(is_subtype(state, q[1], q[2]))
          /\ \A T \in DeepMonoTypes : Returns(is_subtype(state, T, T))
    /\ (IsCall /\ CtxUnique(last.pre.ctx) /\ CtxOrdered(last.pre.ctx))
            => Returns(last.res)

\* A call returned under an ordered context with a chain of two solutions,
\* which apply_context followed to its end.
C10_Witness ==
    /\ IsCall
    /\ ctx = <<ctx_solved("e0", ty_unit), ctx_solved("e1", ty_evar("e0"))>>
    /\ CtxUnique(ctx) /\ CtxOrdered(ctx)
    /\ last.a = ty_arr(ty_unit, ty_evar("e1"))
    /\ Returns(last.res)
    /\ apply_context(ctx, ty_evar("e1")) = ty_unit

\* ------------------------------------------------ session on one Context

\* Longest context the caller builds before looking entries up, checking
\* types and splitting.
MaxSplitLen == 3

\* The entries the caller adds: of every kind, with two assumptions for one
\* term variable and two solutions for one existential.
CtxMembers ==
    {ctx_var("a"), ctx_evar("e0"), ctx_marker("e0"),
     ctx_assump("x", ty_unit), ctx_assump("x", ty_var("a")),
     ctx_solved("e0", ty_unit), ctx_solved("e0", ty_var("a"))}

\* The names looked up: a term variable, and a name that both namespaces
\* may hold.
LookupNames == {"x", "e0"}

\* The types checked for well-formedness.
WfTypes ==
    {ty_unit, ty_var("a"), ty_evar("e0"),
     ty_arr(ty_var("a"), ty_evar("e0")),
     ty_all("b", ty_var("b")),
     ty_all("b", ty_arr(ty_evar("e0"), ty_var("b")))}

\* The members hole2 is asked to split at.
Hole2Members == {ctx_var("a"), ctx_evar("e0"), ctx_marker("e0")}

\* A panic of the latest call ended the process.
CtxAlive == IF last.op \in {"none", "add"} THEN TRUE ELSE ~last.panicked

CtxInit ==
    /\ ctx = <<>>
    /\ nextEVar = 0
    /\ last = NoCall
    /\ issued = <<>>

\* ctx = ctx.add(m)
CtxAdd(m) ==
    /\ CtxAlive
    /\ Len(ctx) < MaxSplitLen
    /\ ctx' = add(ctx, m)
    /\ last' = [op |-> "add", m |-> m]
    /\ UNCHANGED <<nextEVar, issued>>

\* A lookup through &Context: the result is recorded, the context stays.
Lookup(op, x, r) ==
    /\ CtxAlive
    /\ last' = [op |-> op, name |-> x, pre |-> ctx, res |-> r,
                panicked |-> (r.kind = "Panic")]
    /\ UNCHANGED <<ctx, nextEVar, issued>>

\* ctx.has_assumption(&x)
CallHasAssumption(x) == Lookup("Context::has_assumption", x, has_assumption(ctx, x))

\* ctx.has_solution(&e)
CallHasSolution(e) == Lookup("Context::has_solution", e, has_solution(ctx, e))

\* assump(&ctx, &x)
CallAssump(x) == Lookup("assump", x, assump(ctx, x))

\* solution(&ctx, &e)
CallSolution(e) == Lookup("solution", e, solution(ctx, e))

\* A well-formedness check through &Context.
WellFormed(op, t, r) ==
    /\ CtxAlive
    /\ last' = [op |-> op, ty |-> t, pre |-> ctx, res |-> r,
                panicked |-> (r = "Panic")]
    /\ UNCHANGED <<ctx, nextEVar, issued>>

\* is_type_well_formed(&ctx, t)
CallIsTypeWellFormed(t) ==
    WellFormed("is_type_well_formed", t, is_type_well_formed(ctx, t))

\* ctx.is_type_well_formed(t)
CallContextIsTypeWellFormed(t) ==
    WellFormed("Context::is_type_well_formed", t,
               Context_is_type_well_formed(ctx, t))

\* A split of a clone of the context (the methods take self by value).
Split(op, ms, r) ==
    /\ CtxAlive
    /\ last' = [op |-> op, ms |-> ms, pre |-> ctx, res |-> r,
                panicked |-> FALSE]
    /\ UNCHANGED <<ctx, nextEVar, issued>>

\* ctx.clone().split_at(&m)
CallSplitAt(m) == Split("split_at", <<m>>, split_at(ctx, m))

\* ctx.clone().hole(&m)
CallHole(m) == Split("hole", <<m>>, hole(ctx, m))

\* ctx.clone().hole2(&m1, &m2)
CallHole2(m1, m2) == Split("hole2", <<m1, m2>>, hole2(ctx, m1, m2))

CtxNext ==
    \/ \E m \in CtxMembers : CtxAdd(m)
    \/ \E x \in LookupNames : CallHasAssumption(x)
    \/ \E e \in LookupNames : CallHasSolution(e)
    \/ \E x \in LookupNames : CallAssump(x)
    \/ \E e \in LookupNames : CallSolution(e)
    \/ \E t \in WfTypes : CallIsTypeWellFormed(t)
    \/ \E t \in WfTypes : CallContextIsTypeWellFormed(t)
    \/ \E m \in CtxMembers : CallSplitAt(m)
    \/ \E m \in CtxMembers : CallHole(m)
    \/ \E m1 \in Hole2Members, m2 \in Hole2Members : CallHole2(m1, m2)

CtxSpec == CtxInit /\ [][CtxNext]_vars

\* --------------------------------------------------------------------- C11

\* The four lookups, and the tag of the entries each one scans for.
AssumpLookups == {"Context::has_assumption", "assump"}
SolvedLookups == {"Context::has_solution", "solution"}
IsLookup == last.op \in AssumpLookups \cup SolvedLookups
LookupTag == IF last.op \in AssumpLookups THEN "Assump" ELSE "Solved"

\* The positions of the entries of one tag and name.
EntriesNamed(c, tag, x) == {i \in 1..Len(c) : c[i].tag = tag /\ c[i].name = x}

\* C11: has_assumption / has_solution / assump / solution return no result
\* when the context has no entry of their tag for the name, the carried
\* type when it has exactly one, and panic when it has two or more, whether
\* or not the carried types are equal.
C11_LookupUniqueness ==
    IsLookup =>
        LET hits == EntriesNamed(last.pre, LookupTag, last.name) IN
        /\ Cardinality(hits) = 0 => last.res = [kind |-> "None"]
        /\ Cardinality(hits) = 1 =>
              \E i \in hits : last.res = [kind |-> "Some", ty |-> last.pre[i].ty]
        /\ Cardinality(hits) >= 2 => last.res = [kind |-> "Panic"]

\* A lookup of a name that has two entries carrying the same type panicked.
C11_Witness ==
    /\ IsLookup
    /\ \E i, j \in EntriesNamed(last.pre, LookupTag, last.name) :
          i < j /\ last.pre[i].ty = last.pre[j].ty
    /\ last.res.kind = "Panic"

\* --------------------------------------------------------------------- C12

IsWfCall == last.op \in {"is_type_well_formed", "Context::is_type_well_formed"}

\* Well-formedness as the rules state it.
RECURSIVE WfRule(_, _)
WfRule(c, t) ==
    CASE t.tag = "Unit" -> TRUE
      [] t.tag = "Var"  -> \E i \in 1..Len(c) : c[i] = ctx_var(t.name)
      [] t.tag = "EVar" ->
            \E i \in 1..Len(c) :
                c[i].tag \in {"EVar", "Solved"} /\ c[i].name = t.name
      [] t.tag = "Arr"  -> WfRule(c, t.dom) /\ WfRule(c, t.cod)
      [] t.tag = "All"  -> WfRule(c \o <<ctx_var(t.name)>>, t.body)

\* No existential has two Solved entries (the uniqueness invariant implies
\* it).
OneSolutionPerName(c) ==
    \A i, j \in 1..Len(c) :
        i < j /\ c[i].tag = "Solved" /\ c[j].tag = "Solved"
            => c[i].name # c[j].name

\* C12 as stated, for any context: is_type_well_formed(ctx, T) is true
\* exactly when the rules make T well-formed under ctx, and the call leaves
\* ctx unchanged.
C12_WellFormedAnyContext ==
    IsWfCall =>
        /\ (last.res = "True") <=> WfRule(last.pre, last.ty)
        /\ ctx = last.pre

\* C12, amended: in a context where no existential has two Solved entries,
\* is_type_well_formed(ctx, T) returns, it is true exactly when the rules
\* make T well-formed under ctx (Unit always; Var(v) iff a Var(v) entry;
\* EVar(a) iff an EVar(a) or a Solved(a, _) entry; Arr iff both sides; All(v,
\* B) iff B under ctx extended with Var(v)), and the call leaves ctx
\* unchanged.
C12_WellFormed ==
    (IsWfCall /\ OneSolutionPerName(last.pre)) =>
        /\ last.res \in {"True", "False"}
        /\ (last.res = "True") <=> WfRule(last.pre, last.ty)
        /\ ctx = last.pre

\* A quantified type over a solved existential was found well-formed: the
\* bound variable is in no entry, the existential has its Solved entry only.
C12_Witness ==
    /\ IsWfCall
    /\ last.ty = ty_all("b", ty_arr(ty_evar("e0"), ty_var("b")))
    /\ OneSolutionPerName(last.pre)
    /\ ~elem(last.pre, ctx_evar("e0"))
    /\ last.res = "True"
    /\ ctx = last.pre

\* --------------------------------------------------------------------- C13

\* The member occurs in the sequence.
Occurs(c, m) == \E i \in 1..Len(c) : c[i] = m

\* split_at's answer for member m of context c, as the claim describes it.
SplitAtRule(c, m, r) ==
    IF ~Occurs(c, m) THEN r = [kind |-> "None"]
    ELSE /\ r.kind = "Some"
         /\ ~Occurs(r.prefix, m)
         /\ Len(r.remainder) >= 1 /\ r.remainder[1] = m
         /\ r.prefix \o r.remainder = c

\* hole's answer for member m of context c, as the claim describes it.
HoleRule(c, m, r) ==
    IF ~Occurs(c, m) THEN r = [kind |-> "None"]
    ELSE /\ r.kind = "Some"
         /\ r.left = split_at(c, m).prefix
         /\ r.right = Tail(split_at(c, m).remainder)
         /\ ~Occurs(r.left, m)
         /\ r.left \o <<m>> \o r.right = c

\* C13: split_at(m) and hole(m) return not-found when m is absent;
\* otherwise split_at returns the entries strictly left of the first m and
\* the entries from that m on, and hole returns that prefix and the
\* remainder without its first entry, so that left ++ [m] ++ right is the
\* original context, also when m occurs more than once.
C13_SplitHoleRoundTrip ==
    /\ last.op = "split_at" => SplitAtRule(last.pre, last.ms[1], last.res)
    /\ last.op = "hole" => HoleRule(last.pre, last.ms[1], last.res)

\* hole was asked for a member that occurs twice, not at the left end.
C13_Witness ==
    /\ last.op = "hole"
    /\ \E i, j \in 1..Len(last.pre) :
          i < j /\ last.pre[i] = last.ms[1] /\ last.pre[j] = last.ms[1]
    /\ last.res.kind = "Some"
    /\ Len(last.res.left) >= 1
    /\ Occurs(last.res.right, last.ms[1])

\* --------------------------------------------------------------------- C14

\* Some m1 stands left of some m2.
LeftOf(c, m1, m2) ==
    \E i, j \in 1..Len(c) : i < j /\ c[i] = m1 /\ c[j] = m2

\* C14: when m1 occurs left of m2, hole2(m1, m2) returns segments (a, b, c)
\* with a ++ [m1] ++ b ++ [m2] ++ c equal to the original context, split at
\* the first m1 and the first m2 after it; when either member is absent, or
\* m2 occurs only left of the first m1, it returns not-found.
C14_Hole2 ==
    last.op = "hole2" =>
        LET m1 == last.ms[1]
            m2 == last.ms[2]
            r  == last.res
        IN IF LeftOf(last.pre, m1, m2)
           THEN /\ r.kind = "Some"
                /\ r.a \o <<m1>> \o r.b \o <<m2>> \o r.c = last.pre
                /\ ~Occurs(r.a, m1)
                /\ ~Occurs(r.b, m2)
           ELSE r = [kind |-> "None"]

\* hole2 split a context in which m2 stands on both sides of m1.
C14_Witness ==
    /\ last.op = "hole2"
    /\ last.ms[1] # last.ms[2]
    /\ LeftOf(last.pre, last.ms[2], last.ms[1])
    /\ last.res.kind = "Some"
    /\ last.res.a \o <<last.ms[1]>> \o last.res.b \o <<last.ms[2]>> \o last.res.c
          = last.pre

\* --------------------------------------------------------------------- C15

\* The step is a fresh_evar call: a name was handed out.
IssuesName == issued' # issued

\* C15: in a session of add, fresh_evar and is_subtype calls on one
\* CheckState the counter nextEVar never decreases; each fresh_evar call
\* increases it by exactly one, leaves the context unchanged and returns a
\* name no earlier call returned.
C15_FreshNames ==
    [][/\ nextEVar' >= nextEVar
       /\ IssuesName =>
            /\ nextEVar' = nextEVar + 1
            /\ ctx' = ctx
            /\ Len(issued') = Len(issued) + 1
            /\ \A i \in 1..Len(issued) : issued[i] # issued'[Len(issued')]]_vars

\* Two fresh_evar calls were made around other calls and returned two names.
C15_Witness ==
    /\ last.op = "fresh_evar"
    /\ Len(issued) = 2
    /\ issued[1] # issued[2]
    /\ nextEVar = 2
    /\ Len(ctx) >= 1

\* --------------------------------------------------------------------- C16

\* C16: a successful is_subtype call returns a state equal to the state it
\* was given, and after any is_subtype call the caller's context and
\* counter are what they were before it: no entry is added, dropped, moved
\* or solved.
C16_StateUnchanged ==
    IsCall =>
        /\ last.res.kind = "Some" => last.res.s = last.pre
        /\ state = last.pre

\* An arrow over an unsolved existential was accepted, and the existential
\* is unsolved still.
C16_Witness ==
    /\ IsCall
    /\ last.a = ty_arr(ty_unit, ty_evar("e0"))
    /\ last.res.kind = "Some"
    /\ elem(last.pre.ctx, ctx_evar("e0"))
    /\ elem(ctx, ctx_evar("e0"))
    /\ solutions(ctx, "e0") = <<>>

\* --------------------------------------------------------------------- C17

\* No existential of the type has a Solved entry in the context.
NoneSolved(c, t) == \A e \in FEV(t) : solutions(c, e) = <<>>

\* The type has no quantifier in it.
RECURSIVE AllFree(_)
AllFree(t) ==
    CASE t.tag = "Arr" -> AllFree(t.dom) /\ AllFree(t.cod)
      [] t.tag = "All" -> FALSE
      [] OTHER         -> TRUE

\* What the claim says of is_subtype(s, a, b), r being the call's result.
StructuralAt(s, a, b, r) ==
    (NoneSolved(s.ctx, a) /\ NoneSolved(s.ctx, b)) =>
        /\ r.kind \in {"Some", "None"}
        /\ (r.kind = "Some") <=> (a = b /\ AllFree(a))
        /\ is_subtype(s, b, a).kind = r.kind
        /\ (~AllFree(a) \/ ~AllFree(b)) => r.kind = "None"

\* C17: when no existential of A or B has a Solved entry in s.ctx,
\* is_subtype(s, A, B) succeeds exactly when A and B are equal and have no
\* quantifier in them, and fails otherwise; so B <: A succeeds exactly
\* when A <: B does, and a quantifier anywhere in A or B makes the call
\* fail.  Stated of the call the caller made, and between calls of every
\* pair of query types in the caller's state.
C17_StructuralEquality ==
    /\ IsCall => StructuralAt(last.pre, last.a, last.b, last.res)
    /\ Idle => \A a, b \in QueryTypes :
                  StructuralAt(state, a, b, is_subtype(state, a, b))

\* An arrow with a quantifier in its codomain was refused against itself,
\* in a context that holds a solution for an existential the arrow does not
\* mention.
C17_Witness ==
    /\ IsCall
    /\ last.a = ty_arr(ty_unit, ty_all("b", ty_unit))
    /\ last.b = last.a
    /\ \E i \in 1..Len(last.pre.ctx) : last.pre.ctx[i].tag = "Solved"
    /\ last.res.kind = "None"

====
